---- MODULE Spec2Model ----
(***************************************************************************)
(* State-machine model of the webapp-naruto map prototypes.                *)
(*                                                                         *)
(* The repository holds several near-duplicate browser front ends.  Each   *)
(* family of variants gets its own specification over the shared variable  *)
(* list; the variables a family does not use keep their initial value.     *)
(*                                                                         *)
(*   SpecImage : the image-based NarutoWorldMap components                 *)
(*               "DualLayer"     src/src/pages/NarutoWorldMap.jsx   1-335  *)
(*               "PersistentHud" src/src/pages/NarutoWorldMap.jsx 337-808  *)
(*               "RegionTimer"   src/src/pages/NarutoWorldMap.jsx 810-1295 *)
(*               "Part001"       src/unnamed/part_001              63-450  *)
(*   SpecTile  : the procedural tile grids, mounted                        *)
(*               "Landing"       src/src/pages/LandingPageMap.jsx          *)
(*               "DomGrid"       src/src/pages/NarutoWorldMap.jsx 1297-... *)
(*               "Blob"          src/unnamed/part_002                      *)
(*   SpecGen   : "Landing" and "Blob" from the page load on, with reloads  *)
(*   SpecNoise : the simplex-noise world, src/unnamed/part_003             *)
(*   SpecTg    : the Telegram WebApp page, src/script.js                   *)
(*                                                                         *)
(* Units: zoom is kept in thousandths (zoom 1 is 1000), so that the        *)
(* toFixed(2)/toFixed(3) roundings of the code are integer roundings.      *)
(*                                                                         *)
(* One action is one browser event together with the React re-render and   *)
(* the effects that the event's state updates cause (React runs them       *)
(* before the next event is handled).  requestAnimationFrame callbacks,    *)
(* setInterval ticks, setTimeout expiries and the image's load/error       *)
(* events are events of their own.                                         *)
(***************************************************************************)
EXTENDS Integers, Sequences, FiniteSets, TLC

VARIABLES
  variant,       \* which component is mounted
  imgState,      \* "loading" | "loaded" | "failed": the Image element
  loaded,        \* React state `loaded`
  errorLogged,   \* console.error was called by img.onerror
  player,        \* React state `player`: [x, y]
  zoom,          \* React state `zoom`, in thousandths
  chunkOverlay,  \* React state `chunkOverlay`
  regionName,    \* React state `regionName`
  regionTimer,   \* a setTimeout(() => setRegionName(""), 2500) is pending
  holdDir,       \* holdRef.current.dir: <<>> is null, else <<dx, dy>>
  holdTimer,     \* holdRef.current.timer: 0 is null, else an interval id
  intervals,     \* live setInterval timers: set of [id, dir]
  down,          \* movement keys physically held down (environment)
  pointer,       \* on-screen arrow physically held down: <<>> or <<dx, dy>>
  rafQueue,      \* pending requestAnimationFrame callbacks (DualLayer)
  frame,         \* what the last executed draw put on the main canvas
  lastMove,      \* outcome of the last move()/doMove() call
  repeating,     \* controls still held down whose press started a repeat
  mounted,       \* the image-based component is mounted
  steps,         \* number of events handled so far (bounded)
  canvas,        \* what the last draw() of a tile or noise variant painted
  tileSize,      \* Blob: React state `tileSize`, in pixels
  tileInfo,      \* Blob: React state `tileInfo`
  mapData,       \* Landing, Blob: React state `mapData` (no setter)
  mapW,          \* the map's width in tiles (Blob: React state `mapW`)
  mapH,          \* the map's height in tiles (Blob: React state `mapH`)
  runs,          \* the grids generateMap returned, one per page load
  rngState,      \* variable `a` of the closure the last generateMap made
  noise2D,       \* Noise: the current render's noise2D function
  seen,          \* Noise: per probe tile, the biomes painted for it so far
  offset,        \* Telegram: `offset`
  regionText,    \* Telegram: regionText.innerHTML
  chunkText,     \* Telegram: chunkText.innerHTML
  bridgeLog,     \* Telegram: the calls made on window.Telegram.WebApp
  clicked        \* Telegram: the buttons clicked so far

imageVars == <<variant, imgState, loaded, errorLogged, player, zoom,
               chunkOverlay, regionName, regionTimer, holdDir, holdTimer,
               intervals, down, pointer, rafQueue, frame, lastMove, repeating,
               mounted, steps>>

\* The variables only the image-based components use.
imageOnly == <<imgState, loaded, errorLogged, chunkOverlay, regionTimer,
               holdDir, holdTimer, intervals, down, pointer, rafQueue, frame,
               repeating, mounted>>

\* The variables of the other families.
tileOnly == <<tileSize, tileInfo, mapData, mapW, mapH>>
genOnly == <<runs, rngState>>
noiseOnly == <<noise2D, seen>>
tgOnly == <<offset, regionText, chunkText, bridgeLog, clicked>>

vars == <<imageVars, canvas, tileOnly, genOnly, noiseOnly, tgOnly>>

(***************************************************************************)
(* Bounds of the exploration.                                              *)
(***************************************************************************)
MaxSteps == 4

(***************************************************************************)
(* Program constants.                                                      *)
(***************************************************************************)
GRID_SIZE_DUAL == 1000
GRID_SIZE == 500
MIN_ZOOM == 300
MAX_ZOOM == 4000
INITIAL_ZOOM == 1000

ImageVariants == {"DualLayer", "PersistentHud", "RegionTimer", "Part001"}
HoldVariants == {"PersistentHud", "RegionTimer", "Part001"}

GridSize(v) == IF v = "DualLayer" THEN GRID_SIZE_DUAL ELSE GRID_SIZE

Max(a, b) == IF a >= b THEN a ELSE b
Min(a, b) == IF a <= b THEN a ELSE b

\* keyToDir: the movement keys and their directions.  Upper-case letters
\* reach the same entries through key.toLowerCase().
KeyDir(k) ==
  CASE k \in {"ArrowUp", "w", "W"} -> <<0, -1>>
    [] k \in {"ArrowDown", "s", "S"} -> <<0, 1>>
    [] k \in {"ArrowLeft", "a", "A"} -> <<-1, 0>>
    [] k \in {"ArrowRight", "d", "D"} -> <<1, 0>>

\* The movement keys the exploration presses: every direction, arrows and
\* letters both.
Keys == {"ArrowUp", "s", "ArrowLeft", "d"}

\* The on-screen arrow buttons.
ArrowDirs == {<<0, -1>>, <<0, 1>>, <<-1, 0>>, <<1, 0>>}

NoDir == <<>>

(***************************************************************************)
(* Regions and point-in-polygon (PersistentHud and RegionTimer).           *)
(***************************************************************************)
\* REGIONS, in array order: name and polygon vertices (tile coordinates).
REGIONS ==
  << [name |-> "Land of Fire",
      poly |-> << <<170, 240>>, <<260, 260>>, <<320, 300>>, <<300, 380>>,
                  <<220, 380>>, <<180, 330>>, <<160, 280>> >>],
     [name |-> "Land of Wind",
      poly |-> << <<10, 320>>, <<110, 320>>, <<120, 400>>, <<20, 440>> >>],
     [name |-> "Land of Water",
      poly |-> << <<330, 40>>, <<420, 40>>, <<480, 100>>, <<480, 220>>,
                  <<380, 260>>, <<340, 180>> >>],
     [name |-> "Land of Earth",
      poly |-> << <<90, 40>>, <<170, 40>>, <<200, 110>>, <<140, 180>>,
                  <<100, 140>> >>],
     [name |-> "Land of Lightning",
      poly |-> << <<370, 10>>, <<460, 10>>, <<490, 70>>, <<420, 120>>,
                  <<370, 80>> >>],
     [name |-> "Land of Snow",
      poly |-> << <<320, 0>>, <<380, 0>>, <<400, 30>>, <<340, 50>> >>] >>

\* One edge test of the ray casting loop: vertex i against its predecessor
\* j (the last vertex for the first).  The code's
\*   px < ((xj - xi) * (py - yi)) / (yj - yi) + xi
\* is a comparison of exact rationals here (the operands are integers below
\* 2^10, so the double rounding of the quotient cannot change its outcome);
\* it is cross-multiplied by yj - yi, whose sign turns the comparison.
EdgeCrosses(px, py, poly, i) ==
  LET j == IF i = 1 THEN Len(poly) ELSE i - 1
      xi == poly[i][1]
      yi == poly[i][2]
      xj == poly[j][1]
      yj == poly[j][2]
      num == (xj - xi) * (py - yi)
      den == yj - yi
  IN /\ (yi > py) # (yj > py)
     /\ IF den > 0 THEN (px - xi) * den < num ELSE (px - xi) * den > num

\* pointInPoly: `inside` is flipped once per crossing edge.
pointInPoly(px, py, poly) ==
  Cardinality({i \in 1..Len(poly) : EdgeCrosses(px, py, poly, i)}) % 2 = 1

\* REGIONS.find(...) / findRegionAt: index of the first region whose polygon
\* contains the tile, 0 when there is none.
findRegionAt(p) ==
  LET hits == {i \in 1..Len(REGIONS) : pointInPoly(p.x, p.y, REGIONS[i].poly)}
  IN IF hits = {} THEN 0 ELSE CHOOSE i \in hits : \A k \in hits : i <= k

\* updateRegion of PersistentHud: the name set into regionName.
updateRegion(p) ==
  IF findRegionAt(p) = 0 THEN "Unknown Region" ELSE REGIONS[findRegionAt(p)].name

\* updateRegionName of RegionTimer: the name set into regionName.
updateRegionName(p) ==
  IF findRegionAt(p) = 0 THEN "" ELSE REGIONS[findRegionAt(p)].name

(***************************************************************************)
(* Zoom arithmetic.                                                        *)
(***************************************************************************)
\* Number.prototype.toFixed followed by unary +: v, counted in tenths of
\* the last kept digit, rounded to that digit.  toFixed rounds the exact
\* binary value of the double, so a decimal tie (last digit 5) goes up or
\* down depending on the representation error: both results are kept.
ToFixed(v) ==
  LET r == v % 10
  IN IF r < 5 THEN {(v - r) \div 10}
     ELSE IF r > 5 THEN {(v - r) \div 10 + 1}
     ELSE {(v - r) \div 10, (v - r) \div 10 + 1}

\* +(z + d).toFixed(2), z and d in thousandths; the results in thousandths.
ToFixed2(z, d) == {10 * r : r \in ToFixed(z + d)}

\* +(z + delta).toFixed(3) with delta = -deltaY * 0.0015: the sum is
\* counted in ten-thousandths; the results are in thousandths.
ToFixed3(z, deltaY) == ToFixed(10 * z - 15 * deltaY)

\* The zoom step of the + / = / - keys.
KeyZoomStep(v) == IF v = "DualLayer" THEN 100 ELSE 250
\* The zoom step of the on-screen + and - buttons.
ButtonZoomStep == 250
\* deltaY of the wheel events the exploration sends.
WheelDeltaY == {-100, 100}

ZoomInTo(z, step) == {Min(MAX_ZOOM, r) : r \in ToFixed2(z, step)}
\* Mutant of ZoomOutTo: the Math.max(MIN_ZOOM, ...) is left out.
ZoomOutTo_NoLimit(z, step) == ToFixed2(z, 0 - step)

ZoomOutTo(z, step) == {Max(MIN_ZOOM, r) : r \in ToFixed2(z, 0 - step)}
WheelTo(z, deltaY) == {Max(MIN_ZOOM, Min(MAX_ZOOM, r)) : r \in ToFixed3(z, deltaY)}

(***************************************************************************)
(* Player movement.                                                        *)
(***************************************************************************)
\* Mutant of ClampTile: the upper limit is GRID_SIZE, not GRID_SIZE - 1.
ClampTile_OffByOne(v, size) == Max(0, Min(size, v))

\* Math.max(0, Math.min(GRID_SIZE - 1, v))
ClampTile(v, size) == Max(0, Min(size - 1, v))

\* The tile move()/doMove() computes from p and (dx, dy).
MoveTarget(p, dir, size) ==
  [x |-> ClampTile(p.x + dir[1], size), y |-> ClampTile(p.y + dir[2], size)]

\* Whether setPlayer's updater hands React a new object.  move() and the
\* RegionTimer doMove() return p itself when the tile did not change (React
\* then skips the re-render); the PersistentHud doMove() always builds np.
NewPlayerObject(v, p, p2) == IF v = "PersistentHud" THEN TRUE ELSE p2 # p

(***************************************************************************)
(* Frames and requestAnimationFrame callbacks.                             *)
(***************************************************************************)
Origin == [x |-> 0, y |-> 0]
NoFrame == [kind |-> "none", p |-> Origin, z |-> 0, chunks |-> FALSE]
\* drawAll(img, p, z, showChunks) / drawFrame(p) with the image present.
MapFrame(p, z, c) == [kind |-> "map", p |-> p, z |-> z, chunks |-> c]
\* drawFrame called by requestAnimationFrame directly: its argument is the
\* frame's time stamp, which drawFrame takes for the player, so the source
\* rectangle is NaN and no part of the map is painted.
StampFrame(z) == [kind |-> "blank", p |-> Origin, z |-> z, chunks |-> FALSE]

\* A pending requestAnimationFrame callback of DualLayer:
\*   "stamp"  requestAnimationFrame(drawFrame)
\*   "call"   requestAnimationFrame(() => drawFrame(np)) or (() => drawFrame())
\*   "effect" the redraw effect's callback, whose id is kept in rafRef
\* with the player and zoom its closure draws.
RafEntry(kind, p, z) == [kind |-> kind, p |-> p, z |-> z]

\* cancelAnimationFrame(rafRef.current): the redraw effect's previous
\* callback, if still pending, is dropped.
CancelEffectRaf(q) == SelectSeq(q, LAMBDA e : e.kind # "effect")

\* drawFrame for one callback; imgRef.current is set only by onload.
FrameOfRaf(e, old, img) ==
  IF img # "loaded" THEN old
  ELSE IF e.kind = "stamp" THEN StampFrame(e.z)
  ELSE MapFrame(e.p, e.z, FALSE)

\* The frame left on the canvas after the callbacks of q ran in order.
RECURSIVE RunRafs(_, _, _)
RunRafs(q, old, img) ==
  IF q = <<>> THEN old
  ELSE RunRafs(Tail(q), FrameOfRaf(Head(q), old, img), img)

(***************************************************************************)
(* The re-render after an event handler: the new React state and the       *)
(* effects that depend on it.                                              *)
(*   p2, z2, c2, l2  the new player, zoom, chunkOverlay, loaded            *)
(*   newObj          setPlayer was given a new object                      *)
(*   handlerRaf      callbacks the handler itself passed to                *)
(*                   requestAnimationFrame (DualLayer), queued before the  *)
(*                   effects' callbacks                                    *)
(***************************************************************************)
Rerender(p2, z2, c2, l2, newObj, handlerRaf) ==
  LET zoomChanged == z2 # zoom
      depsChanged == newObj \/ zoomChanged \/ c2 # chunkOverlay \/ l2 # loaded
      inRegion == findRegionAt(p2) # 0
  IN /\ player' = p2
     /\ zoom' = z2
     /\ chunkOverlay' = c2
     /\ loaded' = l2
     /\ IF variant = "DualLayer"
        THEN \* effect [zoom]: requestAnimationFrame(drawFrame);
             \* effect [loaded, player, zoom]: cancel, then request a draw.
             /\ rafQueue' =
                  LET q0 == rafQueue \o handlerRaf
                      q1 == IF zoomChanged
                            THEN Append(q0, RafEntry("stamp", p2, z2))
                            ELSE q0
                  IN IF depsChanged /\ l2
                     THEN Append(CancelEffectRaf(q1), RafEntry("effect", p2, z2))
                     ELSE q1
             /\ UNCHANGED <<frame, regionName, regionTimer>>
        ELSE \* effect [player, zoom, chunkOverlay, loaded]:
             \* if (!loaded) return; drawAll; drawMinimap; region update.
             /\ UNCHANGED rafQueue
             /\ IF depsChanged /\ l2
                THEN /\ frame' = MapFrame(p2, z2, c2)
                     /\ regionName' =
                          CASE variant = "PersistentHud" -> updateRegion(p2)
                            [] variant = "RegionTimer" -> updateRegionName(p2)
                            [] OTHER -> regionName
                     /\ regionTimer' =
                          IF variant = "RegionTimer" /\ inRegion
                          THEN TRUE
                          ELSE regionTimer
                ELSE UNCHANGED <<frame, regionName, regionTimer>>

\* move(dx, dy) / doMove(dx, dy).  closureZoom is the zoom of the render
\* whose move() is called (DualLayer draws the moved player with it).
DoMove(dir, closureZoom) ==
  LET p2 == MoveTarget(player, dir, GridSize(variant))
      raf == IF variant = "DualLayer" /\ p2 # player
             THEN <<RafEntry("call", p2, closureZoom)>>
             ELSE <<>>
  IN /\ Rerender(p2, zoom, chunkOverlay, loaded,
                 NewPlayerObject(variant, player, p2), raf)
     /\ lastMove' = IF p2 = player THEN "clamped" ELSE "moved"

(***************************************************************************)
(* Hold-to-move: holdRef and its interval timer.                           *)
(***************************************************************************)
\* clearInterval(id): id 0 (null) and ids of timers already cleared match
\* no live timer.
ClearInterval(live, id) == {t \in live : t.id # id}

\* The id setInterval returns: one no live timer has.
FreshTimerId(live) ==
  CHOOSE n \in 1..(Cardinality(live) + 1) :
    /\ \A t \in live : t.id # n
    /\ \A m \in 1..(n - 1) : \E t \in live : t.id = m

\* Mutant of KeyStartsHold: every keydown of a movement key starts a hold.
KeyStartsHold_Always(d) == TRUE

\* onKeyDown / onDown: a movement key starts a hold only when no hold
\* direction is recorded.
KeyStartsHold(d) == d = NoDir

\* startHold(dir): one step, then the repeating timer.
StartHold(dir) ==
  /\ DoMove(dir, INITIAL_ZOOM)
  /\ LET live == ClearInterval(intervals, holdTimer)
         id == FreshTimerId(live)
     IN /\ intervals' = live \cup {[id |-> id, dir |-> dir]}
        /\ holdTimer' = id
  /\ holdDir' = dir

\* stopHold(): the keyup handler's and the effect cleanup's.
StopHold ==
  /\ intervals' = ClearInterval(intervals, holdTimer)
  /\ holdTimer' = 0
  /\ holdDir' = NoDir

\* startPointerHold(dx, dy).  PersistentHud does not record the direction.
StartPointerHold(dir) ==
  /\ DoMove(dir, zoom)
  /\ LET live == ClearInterval(intervals, holdTimer)
         id == FreshTimerId(live)
     IN /\ intervals' = live \cup {[id |-> id, dir |-> dir]}
        /\ holdTimer' = id
  /\ holdDir' = IF variant = "PersistentHud" THEN holdDir ELSE dir

\* stopPointerHold().  PersistentHud only clears the timer: holdRef keeps
\* the stale id and the direction.
StopPointerHold ==
  /\ intervals' = ClearInterval(intervals, holdTimer)
  /\ holdTimer' = IF variant = "PersistentHud" THEN holdTimer ELSE 0
  /\ holdDir' = IF variant = "PersistentHud" THEN holdDir ELSE NoDir

(***************************************************************************)
(* SpecImage: initial states.                                              *)
(***************************************************************************)
\* useState({x: Math.floor(GRID_SIZE / 2), y: Math.floor(GRID_SIZE / 2)})
CentreTile(v) == [x |-> GridSize(v) \div 2, y |-> GridSize(v) \div 2]

\* Every tile of the grid is reached from the centre by single-tile moves
\* (at most GRID_SIZE / 2 in each axis), with the image still loading.  The
\* exploration starts at the centre and at tiles such moves lead to: the
\* two opposite corners of the grid and, where there are regions, the tile
\* just above the border of Land of Fire.
StartTiles(v) ==
  {CentreTile(v), Origin, [x |-> GridSize(v) - 1, y |-> GridSize(v) - 1]}
    \cup (IF v \in {"PersistentHud", "RegionTimer"}
          THEN {[x |-> 250, y |-> 257]}
          ELSE {})

\* useState("Unknown Region") / useState("")
InitialRegionName(v) == IF v = "PersistentHud" THEN "Unknown Region" ELSE ""

\* useState(true) in PersistentHud and RegionTimer, useState(false) in
\* Part001; DualLayer has no chunk overlay.
InitialChunkOverlay(v) == v \in {"PersistentHud", "RegionTimer"}

(***************************************************************************)
(* The values of the variables a family does not use.                      *)
(***************************************************************************)
NoCanvas == [kind |-> "none"]
NoCell == [type |-> "none"]
NoRng == <<>>

ImageIdle ==
  /\ imgState = "none"
  /\ loaded = FALSE
  /\ errorLogged = FALSE
  /\ chunkOverlay = FALSE
  /\ regionTimer = FALSE
  /\ holdDir = NoDir
  /\ holdTimer = 0
  /\ intervals = {}
  /\ down = {}
  /\ pointer = NoDir
  /\ rafQueue = <<>>
  /\ frame = NoFrame
  /\ repeating = {}
  /\ mounted = FALSE

TileIdle ==
  /\ tileSize = 0
  /\ tileInfo = NoCell
  /\ mapData = <<>>
  /\ mapW = 0
  /\ mapH = 0

GenIdle == runs = <<>> /\ rngState = NoRng

NoiseIdle == noise2D = <<0, 0>> /\ seen = <<>>

TgIdle ==
  /\ offset = Origin
  /\ regionText = ""
  /\ chunkText = ""
  /\ bridgeLog = <<>>
  /\ clicked = {}

InitImage ==
  /\ variant \in ImageVariants
  /\ imgState = "loading"
  /\ loaded = FALSE
  /\ errorLogged = FALSE
  /\ player \in StartTiles(variant)
  /\ zoom = INITIAL_ZOOM
  /\ chunkOverlay = InitialChunkOverlay(variant)
  /\ regionName = InitialRegionName(variant)
  /\ regionTimer = FALSE
  /\ holdDir = NoDir
  /\ holdTimer = 0
  /\ intervals = {}
  /\ down = {}
  /\ pointer = NoDir
     \* DualLayer's effect [zoom] runs on mount: requestAnimationFrame(drawFrame)
  /\ rafQueue = IF variant = "DualLayer" /\ player = CentreTile(variant)
                THEN <<RafEntry("stamp", player, INITIAL_ZOOM)>>
                ELSE <<>>
  /\ frame = NoFrame
  /\ lastMove = "none"
  /\ repeating = {}
  /\ mounted = TRUE
  /\ steps = 0
  /\ canvas = NoCanvas
  /\ TileIdle
  /\ GenIdle
  /\ NoiseIdle
  /\ TgIdle

(***************************************************************************)
(* SpecImage: the events.                                                  *)
(***************************************************************************)
Step == steps < MaxSteps /\ steps' = steps + 1

\* An event of an image-based component.
ImageStep ==
  /\ Step
  /\ mounted
  /\ UNCHANGED <<mounted, canvas, tileOnly, genOnly, noiseOnly, tgOnly>>

\* img.onload
ImageLoaded ==
  /\ ImageStep
  /\ imgState = "loading"
  /\ imgState' = "loaded"
  /\ Rerender(player, zoom, chunkOverlay, TRUE, FALSE,
              IF variant = "DualLayer"
              THEN <<RafEntry("stamp", player, zoom)>>
              ELSE <<>>)
  /\ UNCHANGED <<variant, errorLogged, holdDir, holdTimer, intervals, down,
                 pointer, lastMove, repeating>>

\* Whether the component installs img.onerror (console.error): PersistentHud
\* sets onload only.
HasOnError(v) == v # "PersistentHud"

\* The image fails to load: img.onerror, where there is one.
ImageError ==
  /\ ImageStep
  /\ imgState = "loading"
  /\ imgState' = "failed"
  /\ errorLogged' = HasOnError(variant)
  /\ UNCHANGED <<variant, loaded, player, zoom, chunkOverlay, regionName,
                 regionTimer, holdDir, holdTimer, intervals, down, pointer,
                 rafQueue, frame, lastMove, repeating>>

\* keydown of a movement key (a first press or the keyboard's auto-repeat).
KeyDown(k) ==
  /\ ImageStep
  /\ IF variant = "DualLayer"
     THEN \* onKey: move(dx, dy), through the first render's closure
          /\ DoMove(KeyDir(k), INITIAL_ZOOM)
          /\ UNCHANGED <<holdDir, holdTimer, intervals, down, repeating>>
     ELSE /\ down' = down \cup {k}
          /\ IF KeyStartsHold(holdDir)
             THEN /\ StartHold(KeyDir(k))
                  /\ repeating' = repeating \cup {k}
             ELSE UNCHANGED <<player, zoom, chunkOverlay, loaded, rafQueue,
                              frame, regionName, regionTimer, lastMove,
                              holdDir, holdTimer, intervals, repeating>>
  /\ UNCHANGED <<variant, imgState, errorLogged, pointer>>

\* keyup of a movement key that is down (DualLayer listens to keydown only).
KeyUp(k) ==
  /\ ImageStep
  /\ variant \in HoldVariants
  /\ k \in down
  /\ down' = down \ {k}
  /\ repeating' = repeating \ {k}
  /\ StopHold
  /\ UNCHANGED <<variant, imgState, loaded, errorLogged, player, zoom,
                 chunkOverlay, regionName, regionTimer, pointer, rafQueue,
                 frame, lastMove>>

\* pointerdown on an on-screen arrow.
PointerDown(d) ==
  /\ ImageStep
  /\ pointer = NoDir
  /\ IF variant = "DualLayer"
     THEN \* handleArrow: move(dx, dy) of the current render
          /\ DoMove(d, zoom)
          /\ UNCHANGED <<holdDir, holdTimer, intervals, pointer, repeating>>
     ELSE /\ StartPointerHold(d)
          /\ pointer' = d
          /\ repeating' = repeating \cup {"pointer"}
  /\ UNCHANGED <<variant, imgState, errorLogged, down>>

\* pointerup / pointercancel on the arrow or on the controls container.
PointerUp ==
  /\ ImageStep
  /\ variant \in HoldVariants
  /\ pointer # NoDir
  /\ pointer' = NoDir
  /\ repeating' = repeating \ {"pointer"}
  /\ StopPointerHold
  /\ UNCHANGED <<variant, imgState, loaded, errorLogged, player, zoom,
                 chunkOverlay, regionName, regionTimer, down, rafQueue,
                 frame, lastMove>>

\* A tick of a live setInterval timer: performMove(dir) / doMove(dx, dy).
HoldTick ==
  /\ ImageStep
  /\ \E t \in intervals : DoMove(t.dir, zoom)
  /\ UNCHANGED <<variant, imgState, errorLogged, holdDir, holdTimer,
                 intervals, down, pointer, repeating>>

\* keydown of "+" / "=" (up = TRUE) or "-".
ZoomKey(up) ==
  /\ ImageStep
  /\ \E z2 \in (IF up THEN ZoomInTo(zoom, KeyZoomStep(variant))
                ELSE ZoomOutTo(zoom, KeyZoomStep(variant))) :
       Rerender(player, z2, chunkOverlay, loaded, FALSE, <<>>)
  /\ UNCHANGED <<variant, imgState, errorLogged, holdDir, holdTimer,
                 intervals, down, pointer, lastMove, repeating>>

\* click on the on-screen "+" (up = TRUE) or "-" button.  DualLayer's
\* zoomIn/zoomOut also request a drawFrame() of the render that was clicked.
ZoomButton(up) ==
  /\ ImageStep
  /\ \E z2 \in (IF up THEN ZoomInTo(zoom, ButtonZoomStep)
                ELSE ZoomOutTo(zoom, ButtonZoomStep)) :
       Rerender(player, z2, chunkOverlay, loaded, FALSE,
                IF variant = "DualLayer"
                THEN <<RafEntry("call", player, zoom)>>
                ELSE <<>>)
  /\ UNCHANGED <<variant, imgState, errorLogged, holdDir, holdTimer,
                 intervals, down, pointer, lastMove, repeating>>

\* wheel on the canvas.
Wheel(deltaY) ==
  /\ ImageStep
  /\ \E z2 \in WheelTo(zoom, deltaY) :
       Rerender(player, z2, chunkOverlay, loaded, FALSE, <<>>)
  /\ UNCHANGED <<variant, imgState, errorLogged, holdDir, holdTimer,
                 intervals, down, pointer, lastMove, repeating>>

\* click on the Chunks button: setChunkOverlay((s) => !s).
ToggleChunks ==
  /\ ImageStep
  /\ variant \in HoldVariants
  /\ Rerender(player, zoom, ~chunkOverlay, loaded, FALSE, <<>>)
  /\ UNCHANGED <<variant, imgState, errorLogged, holdDir, holdTimer,
                 intervals, down, pointer, lastMove, repeating>>

\* The region timeout of RegionTimer expires: setRegionName("").
RegionTimeout ==
  /\ ImageStep
  /\ regionTimer
  /\ regionTimer' = FALSE
  /\ regionName' = ""
  /\ UNCHANGED <<variant, imgState, loaded, errorLogged, player, zoom,
                 chunkOverlay, holdDir, holdTimer, intervals, down, pointer,
                 rafQueue, frame, lastMove, repeating>>

\* The browser's animation frame: every pending callback runs, in order.
AnimationFrame ==
  /\ ImageStep
  /\ rafQueue # <<>>
  /\ frame' = RunRafs(rafQueue, frame, imgState)
  /\ rafQueue' = <<>>
  /\ UNCHANGED <<variant, imgState, loaded, errorLogged, player, zoom,
                 chunkOverlay, regionName, regionTimer, holdDir, holdTimer,
                 intervals, down, pointer, lastMove, repeating>>

\* The component unmounts: React runs the cleanups of its effects.  The
\* hold effect's cleanup removes the key listeners and calls stopHold();
\* DualLayer's cancels the callback whose id is in rafRef, the redraw
\* effect's.  No cleanup clears regionTimerRef, none cancels the callbacks
\* requested without keeping their id.
Unmount ==
  /\ Step
  /\ mounted
  /\ mounted' = FALSE
  /\ IF variant \in HoldVariants
     THEN StopHold
     ELSE UNCHANGED <<holdDir, holdTimer, intervals>>
  /\ rafQueue' = CancelEffectRaf(rafQueue)
  /\ down' = {}
  /\ pointer' = NoDir
  /\ repeating' = {}
  /\ UNCHANGED <<variant, imgState, loaded, errorLogged, player, zoom,
                 chunkOverlay, regionName, regionTimer, frame, lastMove,
                 canvas, tileOnly, genOnly, noiseOnly, tgOnly>>

NextImage ==
  \/ ImageLoaded
  \/ ImageError
  \/ \E k \in Keys : KeyDown(k)
  \/ \E k \in Keys : KeyUp(k)
  \/ \E d \in ArrowDirs : PointerDown(d)
  \/ PointerUp
  \/ HoldTick
  \/ \E up \in BOOLEAN : ZoomKey(up)
  \/ \E up \in BOOLEAN : ZoomButton(up)
  \/ \E deltaY \in WheelDeltaY : Wheel(deltaY)
  \/ ToggleChunks
  \/ RegionTimeout
  \/ AnimationFrame
  \/ Unmount

SpecImage == InitImage /\ [][NextImage]_vars

(***************************************************************************)
(* Properties of the image-based components (checked under SpecImage).     *)
(***************************************************************************)
\* The direction a held control moves in.
ControlDir(c) == IF c = "pointer" THEN pointer ELSE KeyDir(c)

\* C1: in the image-based NarutoWorldMap components (GRID_SIZE 1000 and
\* 500) the player's tile satisfies 0 <= x <= GRID_SIZE - 1 and
\* 0 <= y <= GRID_SIZE - 1 after every sequence of one-tile moves.
C1_PlayerInGrid ==
  variant \in ImageVariants =>
    /\ player.x \in 0..(GridSize(variant) - 1)
    /\ player.y \in 0..(GridSize(variant) - 1)

\* A move off the last column of the 1000-tile grid was clamped.
C1_Witness ==
  /\ variant = "DualLayer"
  /\ lastMove = "clamped"
  /\ player.x = GridSize(variant) - 1

\* C4 (as claimed): once the image failed to load, the failure has been
\* logged, the component is not loaded and no frame has been drawn.
C4_FailureLoggedAndIgnored ==
  imgState = "failed" =>
    /\ errorLogged
    /\ ~loaded
    /\ frame = NoFrame

\* The part of C4 that holds in every component: a failed load is never
\* retried or recovered from (loaded stays false, nothing is drawn), and it
\* is logged where img.onerror is installed.
ImageFailureIgnored ==
  imgState = "failed" =>
    /\ ~loaded
    /\ frame = NoFrame
    /\ errorLogged = HasOnError(variant)

\* C5 (as claimed): a control whose press started the repeat keeps a live
\* repeat timer in its direction until that control itself is released.
C5_RepeatUntilOwnRelease ==
  \A c \in repeating : \E t \in intervals : t.dir = ControlDir(c)

\* C9 (as claimed): in PersistentHud the region name is never empty and is
\* the name of the first region containing the player's tile, or
\* "Unknown Region".
C9_RegionNameCurrent ==
  variant = "PersistentHud" =>
    /\ regionName # ""
    /\ regionName = updateRegion(player)

\* The part of C9 that holds: the name is never empty, and it is current
\* whenever the image has loaded.
RegionNameCurrentWhenLoaded ==
  variant = "PersistentHud" =>
    /\ regionName # ""
    /\ loaded => regionName = updateRegion(player)

\* C17: while a keyboard hold is active (holdRef.dir is set), a further
\* keydown of any movement key, the keyboard's auto-repeat included, does
\* not move the player and neither starts nor replaces the repeat timer.
C17_KeydownDuringHoldIgnored ==
  [][(/\ variant \in HoldVariants
      /\ holdDir # NoDir
      /\ \E k \in Keys : KeyDown(k))
       => UNCHANGED <<player, lastMove, holdDir, holdTimer, intervals>>]_vars

\* A second movement key went down during the hold of the first: both are
\* down, and the one timer is the first key's.
C17_Witness ==
  /\ variant \in HoldVariants
  /\ holdDir # NoDir
  /\ Cardinality(down) = 2
  /\ Cardinality(repeating) = 1
  /\ intervals = {[id |-> holdTimer, dir |-> holdDir]}
  /\ \A k \in repeating : KeyDir(k) = holdDir

\* C18 (as claimed): after the component unmounted, no hold-move interval,
\* no region-name timeout and no requested animation-frame callback is
\* pending.
C18_NothingPendingAfterUnmount ==
  (variant \in ImageVariants /\ ~mounted) =>
    /\ intervals = {}
    /\ ~regionTimer
    /\ rafQueue = <<>>

\* The part of C18 that holds: the hold-move interval is cleared, and so
\* is the animation-frame callback of the redraw effect.
HoldAndEffectCancelledAfterUnmount ==
  (variant \in ImageVariants /\ ~mounted) =>
    /\ intervals = {}
    /\ \A i \in 1..Len(rafQueue) : rafQueue[i].kind # "effect"

(***************************************************************************)
(***************************************************************************)
(* The procedural terrain generators.                                      *)
(***************************************************************************)
(***************************************************************************)
(***************************************************************************)
(* 32-bit arithmetic of mulberry32.  A 32-bit word is the pair <<hi, lo>>  *)
(* of its 16-bit halves, so that no intermediate value leaves the range of *)
(* the model checker's integers.                                           *)
(***************************************************************************)
\* The 32-bit words.  The operations on them are functions: their arguments
\* are words, not expressions still to be evaluated.
Word == (0..65535) \X (0..65535)

\* The word of a number below 2^31.
ToWord(n) == <<n \div 65536, n % 65536>>

\* The array of the values of f, a function on 1..n.  It equals f; as an
\* array its elements are computed once, when it is built.
ArrayOf(f, n) == SubSeq(f, 1, n)

\* Bit k of a ^ b or of a | b.
Bit(op, a, b, k) ==
  LET sum == ((a \div (2^k)) % 2) + ((b \div (2^k)) % 2)
  IN IF op = "xor" THEN sum % 2 ELSE IF sum > 0 THEN 1 ELSE 0

\* a ^ b and a | b on two 4-bit numbers.
BitOp4(op, a, b) ==
  Bit(op, a, b, 0) + 2 * Bit(op, a, b, 1) + 4 * Bit(op, a, b, 2)
    + 8 * Bit(op, a, b, 3)

\* The tables of a ^ b and of a | b for 4-bit a and b, at [a + 1][b + 1].
Xor4 ==
  ArrayOf([a \in 1..16 |->
             ArrayOf([b \in 1..16 |-> BitOp4("xor", a - 1, b - 1)], 16)], 16)
Or4 ==
  ArrayOf([a \in 1..16 |->
             ArrayOf([b \in 1..16 |-> BitOp4("or", a - 1, b - 1)], 16)], 16)

\* The operation of table T on two halves, four bits at a time.
BitOp16(T, a, b) ==
  T[(a \div 4096) + 1][(b \div 4096) + 1] * 4096
    + T[((a \div 256) % 16) + 1][((b \div 256) % 16) + 1] * 256
    + T[((a \div 16) % 16) + 1][((b \div 16) % 16) + 1] * 16
    + T[(a % 16) + 1][(b % 16) + 1]

\* a ^ b
Xor32 ==
  [a \in Word, b \in Word |->
     <<BitOp16(Xor4, a[1], b[1]), BitOp16(Xor4, a[2], b[2])>>]

\* a | b
Or32 ==
  [a \in Word, b \in Word |->
     <<BitOp16(Or4, a[1], b[1]), BitOp16(Or4, a[2], b[2])>>]

\* a >>> n, for 0 < n < 16
Shr32(a, n) ==
  <<a[1] \div (2^n), (a[1] % (2^n)) * (2^(16 - n)) + (a[2] \div (2^n))>>

\* (a + b) mod 2^32: what ToInt32 keeps of a sum
Add32 ==
  [a \in Word, b \in Word |->
     LET lo == a[2] + b[2]
     IN <<(a[1] + b[1] + lo \div 65536) % 65536, lo % 65536>>]

\* The low 16 bits of the product of two halves.
Mul16Low(a, b) == (a * (b % 256) + ((a * (b \div 256)) % 256) * 256) % 65536

\* Math.imul(a, b): the low 32 bits of the product.
Imul ==
  [a \in Word, b \in Word |->
     LET x0 == a[2] * (b[2] % 256)
         y0 == a[2] * (b[2] \div 256)
         s == (y0 % 256) * 256 + x0
         carry == y0 \div 256 + s \div 65536
     IN <<(carry + Mul16Low(a[1], b[2]) + Mul16Low(a[2], b[1])) % 65536,
          s % 65536>>]

\* u < v for two words (unsigned)
WordLess(u, v) == u[1] < v[1] \/ (u[1] = v[1] /\ u[2] < v[2])

(***************************************************************************)
(* mulberry32 (LandingPageMap.jsx 166-173, part_002 420-427).  The closure *)
(* mulberry32(a) returns is represented by its captured variable a.  The   *)
(* code lets a grow as a double; only a mod 2^32 enters the bit            *)
(* operations, and that is what the word holds.                            *)
(***************************************************************************)
\* var t = (a += 0x6d2b79f5): the closure's variable after n more calls
\* (n < 2^15).
RngAfter(a, n) ==
  LET lo == a[2] + n * 31221
  IN <<(a[1] + n * 27947 + lo \div 65536) % 65536, lo % 65536>>

\* t = Math.imul(t ^ (t >>> 15), t | 1)
Mix15 == [t \in Word |-> Imul[Xor32[t, Shr32(t, 15)], Or32[t, <<0, 1>>]]]

\* t ^= t + Math.imul(t ^ (t >>> 7), t | 61)
Mix7 ==
  [t \in Word |->
     Xor32[t, Add32[t, Imul[Xor32[t, Shr32(t, 7)], Or32[t, <<0, 61>>]]]]]

\* (t ^ (t >>> 14)) >>> 0
Mix14 == [t \in Word |-> Xor32[t, Shr32(t, 14)]]

\* The value one call returns, as the 32-bit numerator u of u / 4294967296,
\* from the closure's variable a after the call's increment.
RngValue(a) == Mix14[Mix7[Mix15[a]]]

\* The values of the next n calls of the closure whose variable is a.
RngDraws(a, n) == ArrayOf([i \in 1..n |-> RngValue(RngAfter(a, i))], n)

\* A generator shared by every run: it goes on from where the last run
\* left it.
mulberry32_SharedState(a) == IF rngState = NoRng THEN ToWord(a) ELSE rngState

\* mulberry32(a): a new closure, whose variable is a.
mulberry32(a) == ToWord(a)

(***************************************************************************)
(* generateMap of LandingPageMap.jsx (147-164).                            *)
(***************************************************************************)
\* The type of one cell from its noise = u / 2^32.  The comparisons with
\* the doubles 0.1, 0.2, 0.4, 0.6 and 0.95 are comparisons of u with those
\* doubles times 2^32 (429496729.6, 858993459.2, 1717986918.4,
\* 2576980377.6, 4080218931.2).
LandingTileType(u) ==
  IF WordLess(u, <<6553, 39322>>) THEN "water"
  ELSE IF WordLess(u, <<13107, 13108>>) THEN "sand"
  ELSE IF WordLess(u, <<26214, 26215>>) THEN "forest"
  ELSE IF WordLess(u, <<39321, 39322>>) THEN "mountain"
  ELSE IF ~WordLess(u, <<62259, 13108>>) THEN "snow"
  ELSE "grass"

\* The body of generateMap(size), run with the generator rng: the grid
\* map[y][x] (rows and columns counted from 1 here) and the generator's
\* variable afterwards.
LandingGrid(size, rng) ==
  LET noise == RngDraws(rng, size * size)
      Row(y) == [x \in 1..size |-> LandingTileType(noise[(y - 1) * size + x])]
  IN [rng |-> RngAfter(rng, Len(noise)),
      map |-> ArrayOf([y \in 1..size |-> ArrayOf(Row(y), size)], size)]

(***************************************************************************)
(* generateMap of the blob map (part_002 346-408).  Its doubles are kept   *)
(* as multiples of 1/1024, rounded down at every operation; the integer    *)
(* results (Math.floor of a product, the comparison of distances) are      *)
(* exact.                                                                  *)
(***************************************************************************)
\* rng() * 1, in 1/1024
Unit(u) == u[1] \div 64

\* Math.floor(rng() * n), for n < 2^15
FloorMul(u, n) == (u[1] * n + (u[2] * n) \div 65536) \div 65536

\* Math.sqrt(s) / radius in 1/1024 when it is below 1: the d below 1024 with
\* (d * radius)^2 <= s * 2^20 < ((d + 1) * radius)^2, found in two steps
\* of 32.
Between(s, radius, d, step) ==
  /\ (d * radius) * (d * radius) <= s * 1048576
  /\ s * 1048576 < ((d + step) * radius) * ((d + step) * radius)

Ratio(s, radius) ==
  LET high == CHOOSE q \in 0..31 : Between(s, radius, 32 * q, 32)
  IN CHOOSE d \in (32 * high)..(32 * high + 31) : Between(s, radius, d, 1)

\* fall = Math.max(0, 1 - Math.sqrt(dx * dx + dy * dy) / radius), in 1/1024
Fall(dx, dy, radius) ==
  LET s == dx * dx + dy * dy
  IN IF s >= radius * radius THEN 0 ELSE 1024 - Ratio(s, radius)

regionNames ==
  <<"Land of Fire", "Land of Water", "Land of Wind", "Land of Earth",
    "Land of Lightning", "Land of Rivers", "Land of Snow">>

\* A grid of h rows of w values rng() * 1, and the draws it took.
RandomGrid(draws, w, h) ==
  LET Row(y) == [x \in 1..w |-> Unit(draws[(y - 1) * w + x])]
  IN ArrayOf([y \in 1..h |-> ArrayOf(Row(y), w)], h)

\* The twelve region centres from 24 draws: x, then y, of each in turn.
RegionCentres(draws, w, h) ==
  ArrayOf([i \in 1..12 |->
             [x |-> FloorMul(draws[2 * i - 1], w),
              y |-> FloorMul(draws[2 * i], h),
              name |-> regionNames[((i - 1) % 7) + 1]]], 12)

\* The number of cells of region r's square that lie on the map: the cells
\* the double loop does not skip.  It visits them row by row.
BlobLeft(r, radius) == IF r.x - radius > 0 THEN r.x - radius ELSE 0
BlobTop(r, radius) == IF r.y - radius > 0 THEN r.y - radius ELSE 0
BlobRight(r, radius, w) == IF r.x + radius < w - 1 THEN r.x + radius ELSE w - 1
BlobBottom(r, radius, h) == IF r.y + radius < h - 1 THEN r.y + radius ELSE h - 1
BlobCols(r, radius, w) == BlobRight(r, radius, w) - BlobLeft(r, radius) + 1
BlobRows(r, radius, h) == BlobBottom(r, radius, h) - BlobTop(r, radius) + 1

\* Whether the double loop of region r visits tile (x, y): the tiles of
\* the square that lie on the map.
Inside(r, radius, x, y, w, h) ==
  /\ x >= BlobLeft(r, radius)
  /\ x <= BlobRight(r, radius, w)
  /\ y >= BlobTop(r, radius)
  /\ y <= BlobBottom(r, radius, h)

\* The position of tile (x, y) among the tiles visited, from 0.
Visit(r, radius, x, y, w) ==
  (y - BlobTop(r, radius)) * BlobCols(r, radius, w) + (x - BlobLeft(r, radius))

\* (0.2 + rng() * 0.6) * fall and (0.1 + rng() * 0.8) * fall, in 1/1024,
\* u being what rng() returned.
ElevGain(u, fall) == ((205 + (Unit(u) * 6) \div 10) * fall) \div 1024
MoistGain(u, fall) == ((102 + (Unit(u) * 8) \div 10) * fall) \div 1024

\* elev[y][x] and moist[y][x] after the pass of region r, whose draws
\* (two for each tile visited) are `draws`.
ElevAfter(g, r, radius, draws, x, y, w, h) ==
  IF Inside(r, radius, x, y, w, h)
  THEN g.elev[y + 1][x + 1]
       + ElevGain(draws[2 * Visit(r, radius, x, y, w) + 1],
                  Fall(x - r.x, y - r.y, radius))
  ELSE g.elev[y + 1][x + 1]

MoistAfter(g, r, radius, draws, x, y, w, h) ==
  IF Inside(r, radius, x, y, w, h)
  THEN g.moist[y + 1][x + 1]
       + MoistGain(draws[2 * Visit(r, radius, x, y, w) + 2],
                   Fall(x - r.x, y - r.y, radius))
  ELSE g.moist[y + 1][x + 1]

\* One pass of the loop over the regions, for region r with the generator
\* s1 that drew the radius.  g is the loop's state [next, rng, elev,
\* moist]; the result has the same fields.  Tile (x, y) is grid cell
\* [y + 1][x + 1].
BlobPass(g, r, s1, radius, draws, w, h) ==
  [next |-> g.next + 1,
   rng |-> RngAfter(s1, Len(draws)),
   elev |-> ArrayOf([y \in 1..h |->
                       ArrayOf([x \in 1..w |->
                                  ElevAfter(g, r, radius, draws, x - 1, y - 1,
                                            w, h)], w)], h),
   moist |-> ArrayOf([y \in 1..h |->
                        ArrayOf([x \in 1..w |->
                                   MoistAfter(g, r, radius, draws, x - 1, y - 1,
                                              w, h)], w)], h)]

\* The pass of a region of this radius: two draws for each tile visited.
BlobOfRadius(g, r, s1, radius, w, h) ==
  BlobPass(g, r, s1, radius,
           RngDraws(s1, 2 * BlobCols(r, radius, w) * BlobRows(r, radius, h)),
           w, h)

\* const radius = Math.floor(6 + rng() * 12), and the pass
BlobOfRegion(g, r, s1, w, h) ==
  BlobOfRadius(g, r, s1, 6 + FloorMul(RngValue(s1), 12), w, h)

\* The pass of region g.next.
ApplyBlob(g, regions, w, h) ==
  BlobOfRegion(g, regions[g.next], RngAfter(g.rng, 1), w, h)

\* for (let r of regions) { ... }: the remaining passes of the loop.
RECURSIVE ApplyBlobs(_, _, _, _)
ApplyBlobs(g, regions, w, h) ==
  IF g.next > Len(regions) THEN g
  ELSE ApplyBlobs(ApplyBlob(g, regions, w, h), regions, w, h)

\* The tile type from the clamped elevation e and moisture m (in 1/1024)
\* of row y of h rows (y counted from 0); y < h * 0.2 is 5 * y < h.
BlobTileType(e, m, y, h) ==
  IF e > 870 /\ 5 * y < h THEN "snow"
  ELSE IF e < 205 /\ m > 307 THEN "water"
  ELSE IF e < 256 THEN "sand"
  ELSE IF e > 768 THEN "mountain"
  ELSE IF e > 614 /\ m > 409 THEN "forest"
  ELSE "grass"

\* The squared distance of tile (x, y) from region r: Math.hypot orders
\* the regions as its square does.
Dist2(r, x, y) == (r.x - x) * (r.x - x) + (r.y - y) * (r.y - y)

\* The nearest region of tile (x, y): the first of those at the least
\* distance (d < best.d replaces best only when strictly nearer).
NearestRegion(regions, x, y) ==
  CHOOSE i \in 1..Len(regions) :
    /\ \A k \in 1..Len(regions) : Dist2(regions[i], x, y) <= Dist2(regions[k], x, y)
    /\ \A k \in 1..(i - 1) : Dist2(regions[k], x, y) > Dist2(regions[i], x, y)

\* best.r.name + (best.d < 8 ? ' (bullet)' : ''); the bullet character is
\* written as an asterisk here.
RegionLabel(regions, x, y) ==
  LET r == regions[NearestRegion(regions, x, y)]
  IN IF Dist2(r, x, y) < 64 THEN r.name \o " *" ELSE r.name

\* A clamp that forgets the upper limit.
clamp_NoUpperLimit(v, a, b) == Max(a, v)

\* clamp(v, a, b) (part_002 411-413)
clamp(v, a, b) == Max(a, Min(b, v))

\* data[y][x] from the final elevation and moisture, clamped to [0, 1].
BlobCell(e, m, regions, x, y, h) ==
  [type |-> BlobTileType(e, m, y, h),
   elevation |-> e,
   moisture |-> m,
   region |-> RegionLabel(regions, x, y)]

\* The grid data[y][x] after the loop over the regions, and the
\* generator's variable.
BlobData(g, regions, w, h) ==
  [rng |-> g.rng,
   map |-> ArrayOf([y \in 1..h |->
                      ArrayOf([x \in 1..w |->
                                 BlobCell(clamp(g.elev[y][x], 0, 1024),
                                          clamp(g.moist[y][x], 0, 1024),
                                          regions, x - 1, y - 1, h)], w)], h)]

\* The loop over the regions, from the random grids, and the data.
BlobOfRegions(base, regions, rng, w, h) ==
  BlobData(ApplyBlobs([next |-> 1,
                       rng |-> RngAfter(rng, Len(base)),
                       elev |-> RandomGrid(SubSeq(base, 1, w * h), w, h),
                       moist |-> RandomGrid(SubSeq(base, w * h + 1, 2 * w * h),
                                            w, h)],
                      regions, w, h),
           regions, w, h)

\* The regions, from the 24 draws after those of the two random grids.
BlobOfDraws(base, rng, w, h) ==
  BlobOfRegions(base,
                RegionCentres(SubSeq(base, 2 * w * h + 1, 2 * w * h + 24), w, h),
                rng, w, h)

\* The body of generateMap(w, h), run with the generator rng: the grid
\* data[y][x] and the generator's variable afterwards.  The first
\* 2 * w * h + 24 draws are those of elev, of moist and of the regions.
BlobGrid(w, h, rng) == BlobOfDraws(RngDraws(rng, 2 * w * h + 24), rng, w, h)

\* generateMap(size) of LandingPageMap.jsx: const rng = mulberry32(12345)
generateMapLanding(size) == LandingGrid(size, mulberry32(12345))

\* generateMap(w, h) of the blob map: const rng = mulberry32(seed)
generateMapBlob(w, h) == BlobGrid(w, h, mulberry32(1337))

(***************************************************************************)
(***************************************************************************)
(* The procedural tile grids: LandingPageMap.jsx ("Landing"), the DOM grid *)
(* at the end of NarutoWorldMap.jsx ("DomGrid") and part_002 ("Blob").     *)
(*                                                                         *)
(* zoom is a double in Landing and Blob (z + 0.1, no toFixed); it is kept  *)
(* in exact thousandths here.  The roundings that read it, Math.round(16 * *)
(* zoom) and Math.ceil(width / tile / 2), are never within 1e-3 of a tie   *)
(* for the zooms the events below produce and the odd window sizes below. *)
(*                                                                         *)
(* A frame is recorded by its geometry (first tile, tile size, marker),    *)
(* not by its pixels.  Under SpecTile the maps have their real sizes;      *)
(* Landing's and DomGrid's grids, which only the pixel loops read, are     *)
(* then not held in mapData, while Blob's grid, which move() reads, is     *)
(* generated in full.                                                      *)
(***************************************************************************)
(***************************************************************************)
MAP_SIZE == 500
MAP_SIZE_DOM == 50
BASE_TILE == 16
CANVAS_SIZE == 500
BASE_TILE_PX == 16
InitialMapW == 80
InitialMapH == 60

TileVariants == {"Landing", "DomGrid", "Blob"}
\* The components with zoom keys, and those with on-screen arrow buttons.
ZoomVariants == {"Landing", "Blob"}
ButtonVariants == {"DomGrid", "Blob"}

\* Math.max(0.5, ...) / Math.max(0.4, ...) and Math.min(4, ...) / Math.min(3, ...)
TileMinZoom(v) == IF v = "Landing" THEN 500 ELSE 400
TileMaxZoom(v) == IF v = "Landing" THEN 4000 ELSE 3000

\* The zoom keys the exploration presses.
ZoomKeys == {"+", "=", "-"}

\* window.innerWidth and window.innerHeight of the windows the exploration
\* uses.
WindowSizes == {<<801, 601>>, <<1281, 721>>}

\* The map's dimensions in tiles: MAP_SIZE, or useState(80) / useState(60).
MapDims(v) ==
  CASE v = "Landing" -> <<MAP_SIZE, MAP_SIZE>>
    [] v = "DomGrid" -> <<MAP_SIZE_DOM, MAP_SIZE_DOM>>
    [] v = "Blob" -> <<InitialMapW, InitialMapH>>

\* useState({x: 250, y: 250}), useState({x: 25, y: 25}) and
\* useState({x: Math.floor(mapW / 2), y: Math.floor(mapH / 2)})
InitialPlayer(v, w, h) ==
  CASE v = "Landing" -> [x |-> 250, y |-> 250]
    [] v = "DomGrid" -> [x |-> 25, y |-> 25]
    [] v = "Blob" -> [x |-> w \div 2, y |-> h \div 2]

\* map[y][x] of a grid held as rows and columns counted from 1; NoCell is
\* JavaScript's undefined, outside the grid.
TileAt(map, x, y) ==
  IF y + 1 \in 1..Len(map) /\ x + 1 \in 1..Len(map[y + 1])
  THEN map[y + 1][x + 1]
  ELSE NoCell

\* lookupRegionName(map, x, y)
lookupRegionName(map, x, y) ==
  LET c == TileAt(map, x, y)
  IN IF c.type = "none" THEN "Unknown Region" ELSE c.region

\* Math.max(4, Math.round(BASE_TILE_PX * zoom))
TileSizeOf(z) == Max(4, (BASE_TILE_PX * z + 500) \div 1000)

\* Math.ceil(len / tile / 2) with tile = BASE_TILE * zoom
HalfTiles(len, z) == (len * 1000 + 2 * BASE_TILE * z - 1) \div (2 * BASE_TILE * z)

\* draw() of LandingPageMap.jsx on a canvas of the window's size: tiles
\* start.x .. start.x + 2 * half.x are painted from the canvas's left edge
\* on, tile wide (in thousandths of a pixel); drawPlayer(ctx, width / 2,
\* height / 2, tile) puts the marker's centre at marker2 / 2.
DrawLanding(p, z, win) ==
  LET halfXTiles == HalfTiles(win[1], z)
      halfYTiles == HalfTiles(win[2], z)
  IN [kind |-> "landing",
      width |-> win[1],
      height |-> win[2],
      tile |-> BASE_TILE * z,
      start |-> [x |-> p.x - halfXTiles, y |-> p.y - halfYTiles],
      half |-> [x |-> halfXTiles, y |-> halfYTiles],
      marker2 |-> <<win[1], win[2]>>]

\* The render of the DOM grid: tile (x, y) is a 32px box at left x * 32,
\* top y * 32 of the map element, which is translated by 50vw / 50vh minus
\* `shift`; the tile with class "player" is playerTile.
DrawDom(p) ==
  [kind |-> "dom",
   shift |-> [x |-> p.x * 32 + 16, y |-> p.y * 32 + 16],
   playerTile |-> p]

\* drawPlayer(ctx, x, y, tilePx) of part_002: ctx.translate(x, y) and then
\* ctx.arc(x + tilePx / 2, y + tilePx / 2, ...).  The result is the centre
\* of the body on the canvas, in half pixels.
drawPlayer(x, y, tilePx) == <<2 * (x + x) + tilePx, 2 * (y + y) + tilePx>>

\* draw() of part_002.  extra2 is 2 * extraX = 2 * extraY; tile
\* (start.x + i, start.y + j) is painted at (i * tilePx + extraX,
\* j * tilePx + extraY) for i, j in 0 .. tiles - 1.
DrawBlob(p, tilePx, w, h) ==
  LET tilesPerViewport == (CANVAS_SIZE + tilePx - 1) \div tilePx
      offsetTiles == tilesPerViewport \div 2
      startX == clamp(p.x - offsetTiles, 0, Max(0, w - tilesPerViewport))
      startY == clamp(p.y - offsetTiles, 0, Max(0, h - tilesPerViewport))
      playerScreen == (CANVAS_SIZE - tilePx) \div 2
  IN [kind |-> "blob",
      tilePx |-> tilePx,
      tiles |-> tilesPerViewport,
      start |-> [x |-> startX, y |-> startY],
      extra2 |-> CANVAS_SIZE - tilesPerViewport * tilePx,
      marker2 |-> drawPlayer(playerScreen, playerScreen, tilePx)]

\* What the component shows after a render with these values.
Draw(v, p, z, tilePx, w, h, win) ==
  CASE v = "Landing" -> DrawLanding(p, z, win)
    [] v = "DomGrid" -> DrawDom(p)
    [] v = "Blob" -> DrawBlob(p, tilePx, w, h)

\* The window's size: canvas.width = window.innerWidth and canvas.height =
\* window.innerHeight hold after every event of Landing.
Window == IF canvas.kind = "landing" THEN <<canvas.width, canvas.height>> ELSE <<0, 0>>

\* The component's React state and frame with the player on tile p at the
\* initial zoom (at the mount, p is the initial tile).
TileState(v, p, w, h, map, win) ==
  [player |-> p,
   zoom |-> INITIAL_ZOOM,
   tileSize |-> IF v = "Blob" THEN BASE_TILE_PX ELSE 0,
   regionName |-> IF v = "Blob" THEN lookupRegionName(map, p.x, p.y) ELSE "",
   tileInfo |-> IF v = "Blob" THEN TileAt(map, p.x, p.y) ELSE NoCell,
   canvas |-> Draw(v, p, INITIAL_ZOOM, BASE_TILE_PX, w, h, win)]

\* Every tile of a map is reached from the initial tile by one-tile moves.
\* The exploration starts on the initial tile and on the two opposite
\* corners of the map.
TileStartTiles(v, w, h) ==
  {InitialPlayer(v, w, h), Origin, [x |-> w - 1, y |-> h - 1]}

\* The grid SpecTile holds in mapData.
TileGrid(v, w, h) == IF v = "Blob" THEN generateMapBlob(w, h).map ELSE <<>>

\* The windows a component is shown in.
WindowsOf(v) == IF v = "Landing" THEN WindowSizes ELSE {<<0, 0>>}

InitTile ==
  /\ variant \in TileVariants
  /\ mapW = MapDims(variant)[1]
  /\ mapH = MapDims(variant)[2]
  /\ mapData = TileGrid(variant, mapW, mapH)
  /\ \E p \in TileStartTiles(variant, mapW, mapH) :
       \E win \in WindowsOf(variant) :
         \E st \in {TileState(variant, p, mapW, mapH, mapData, win)} :
           /\ player = st.player
           /\ zoom = st.zoom
           /\ tileSize = st.tileSize
           /\ regionName = st.regionName
           /\ tileInfo = st.tileInfo
           /\ canvas = st.canvas
  /\ lastMove = "none"
  /\ steps = 0
  /\ ImageIdle
  /\ GenIdle
  /\ NoiseIdle
  /\ TgIdle

(***************************************************************************)
(* The events of the tile grids.                                           *)
(***************************************************************************)
\* An event of a mounted tile grid.
TileStep ==
  /\ Step
  /\ canvas.kind \in {"landing", "dom", "blob"}
  /\ UNCHANGED <<variant, mapData, mapW, mapH, imageOnly, genOnly, noiseOnly,
                 tgOnly>>

\* move(dx, dy) / movePlayer(dx, dy), with the re-render and the draw()
\* of the effects on [player].  Blob's move() reads the player of the
\* render that subscribed it, which is the current one (the effect that
\* subscribes onKey depends on [player]).
MoveTile(dir) ==
  LET p2 == IF variant = "Blob"
            THEN [x |-> clamp(player.x + dir[1], 0, mapW - 1),
                  y |-> clamp(player.y + dir[2], 0, mapH - 1)]
            ELSE MoveTarget(player, dir, mapW)
  IN /\ player' = p2
     /\ regionName' = IF variant = "Blob"
                      THEN lookupRegionName(mapData, p2.x, p2.y)
                      ELSE regionName
     /\ tileInfo' = IF variant = "Blob"
                    THEN TileAt(mapData, p2.x, p2.y)
                    ELSE tileInfo
     /\ canvas' = Draw(variant, p2, zoom, tileSize, mapW, mapH, Window)
     /\ lastMove' = IF p2 = player THEN "clamped" ELSE "moved"
     /\ UNCHANGED <<zoom, tileSize>>

\* setZoom(z2), with the re-render and its effects: Blob's effect on
\* [zoom] sets tileSize, and the last draw() uses the new values.
ZoomTile(z2) ==
  /\ zoom' = z2
  /\ tileSize' = IF variant = "Blob" THEN TileSizeOf(z2) ELSE tileSize
  /\ canvas' = Draw(variant, player, z2, tileSize', mapW, mapH, Window)
  /\ UNCHANGED <<player, regionName, tileInfo, lastMove>>

\* keydown of a movement key (onKey / handleKey).
TileKeyDown(k) ==
  /\ TileStep
  /\ MoveTile(KeyDir(k))

\* click on an on-screen arrow button.
TileButton(d) ==
  /\ TileStep
  /\ variant \in ButtonVariants
  /\ MoveTile(d)

\* keydown of "+", "=" or "-": "=" zooms in Blob only.
TileZoomKey(k) ==
  /\ TileStep
  /\ variant \in ZoomVariants
  /\ ZoomTile(CASE k = "+" -> Min(TileMaxZoom(variant), zoom + 100)
                [] k = "=" -> IF variant = "Blob"
                              THEN Min(TileMaxZoom(variant), zoom + 100)
                              ELSE zoom
                [] k = "-" -> Max(TileMinZoom(variant), zoom - 100))

\* click on Blob's "+" (up = TRUE) or "-" button.
TileZoomButton(up) ==
  /\ TileStep
  /\ variant = "Blob"
  /\ ZoomTile(IF up
              THEN Min(TileMaxZoom(variant), zoom + 100)
              ELSE Max(TileMinZoom(variant), zoom - 100))

\* wheel on Blob's canvas: delta = -e.deltaY * 0.001
TileWheel(deltaY) ==
  /\ TileStep
  /\ variant = "Blob"
  /\ ZoomTile(Max(TileMinZoom(variant),
                  Min(TileMaxZoom(variant), zoom - deltaY)))

\* resize of Landing's window: handleResize.
Resize(win) ==
  /\ TileStep
  /\ variant = "Landing"
  /\ canvas' = DrawLanding(player, zoom, win)
  /\ UNCHANGED <<player, zoom, tileSize, regionName, tileInfo, lastMove>>

NextTile ==
  \/ \E k \in Keys : TileKeyDown(k)
  \/ \E d \in ArrowDirs : TileButton(d)
  \/ \E k \in ZoomKeys : TileZoomKey(k)
  \/ \E up \in BOOLEAN : TileZoomButton(up)
  \/ \E deltaY \in WheelDeltaY : TileWheel(deltaY)
  \/ \E win \in WindowSizes : Resize(win)

SpecTile == InitTile /\ [][NextTile]_vars

(***************************************************************************)
(* Properties of the tile grids (checked under SpecTile).                  *)
(***************************************************************************)
\* C2: in the procedural tile grids (500x500 Landing, 50x50 DomGrid, 80x60
\* Blob) the player satisfies 0 <= x <= width - 1 and 0 <= y <= height - 1
\* of the variant's map after every sequence of keyboard and button moves.
C2_PlayerInMap ==
  variant \in TileVariants =>
    /\ mapW = MapDims(variant)[1]
    /\ mapH = MapDims(variant)[2]
    /\ player.x \in 0..(mapW - 1)
    /\ player.y \in 0..(mapH - 1)

\* A move off the last column of the 80x60 map was clamped.
C2_Witness ==
  /\ variant = "Blob"
  /\ lastMove = "clamped"
  /\ player.x = InitialMapW - 1

\* The left (or top) edge, in half pixels, of the screen cell in which
\* draw() paints map column (or row) t.
BlobCellEdge2(t, first) == 2 * (t - first) * canvas.tilePx + canvas.extra2

\* C10 (as claimed): in Blob the player stays centred in the 500x500
\* viewport: whatever the player's tile and the tile size, draw() paints
\* the marker at the centre of the canvas, inside the screen cell in which
\* the player's own tile is painted.
C10_MarkerCentredOnPlayerTile ==
  canvas.kind = "blob" =>
    /\ canvas.marker2 = <<CANVAS_SIZE, CANVAS_SIZE>>
    /\ canvas.marker2[1] >= BlobCellEdge2(player.x, canvas.start.x)
    /\ canvas.marker2[1] < BlobCellEdge2(player.x + 1, canvas.start.x)
    /\ canvas.marker2[2] >= BlobCellEdge2(player.y, canvas.start.y)
    /\ canvas.marker2[2] < BlobCellEdge2(player.y + 1, canvas.start.y)

(***************************************************************************)
(***************************************************************************)
(* SpecGen: Landing and Blob from the page load on.  Every load of the     *)
(* page runs the module again: generateMap builds a new grid, and the      *)
(* React state starts afresh.  The maps are small here (GenSize tiles      *)
(* square for Landing, GenW by GenH for Blob in place of MAP_SIZE, mapW    *)
(* and mapH), so that whole grids are held and compared.                   *)
(***************************************************************************)
(***************************************************************************)
MaxLoads == 2
GenSize == 3
GenW == 2
GenH == 2

GenVariants == {"Landing", "Blob"}

GenDims(v) == IF v = "Landing" THEN <<GenSize, GenSize>> ELSE <<GenW, GenH>>

\* One run of generateMap at these sizes: useState(() => generateMap(...)).
LandingRun == generateMapLanding(GenSize)
BlobRun == generateMapBlob(GenW, GenH)
GenRun(v) == IF v = "Landing" THEN LandingRun ELSE BlobRun

\* Before the first load there is no component.
InitGen ==
  /\ variant \in GenVariants
  /\ player = Origin
  /\ zoom = 0
  /\ regionName = ""
  /\ canvas = NoCanvas
  /\ lastMove = "none"
  /\ steps = 0
  /\ TileIdle
  /\ ImageIdle
  /\ GenIdle
  /\ NoiseIdle
  /\ TgIdle

\* The page is loaded (or loaded again): the component mounts.
Load ==
  /\ Step
  /\ Len(runs) < MaxLoads
  /\ \E gen \in {GenRun(variant)} :
       \E win \in WindowsOf(variant) :
         \E st \in {TileState(variant,
                              InitialPlayer(variant, GenDims(variant)[1],
                                            GenDims(variant)[2]),
                              GenDims(variant)[1], GenDims(variant)[2],
                              gen.map, win)} :
           /\ runs' = Append(runs, gen.map)
           /\ rngState' = gen.rng
           /\ mapData' = gen.map
           /\ mapW' = GenDims(variant)[1]
           /\ mapH' = GenDims(variant)[2]
           /\ player' = st.player
           /\ zoom' = st.zoom
           /\ tileSize' = st.tileSize
           /\ regionName' = st.regionName
           /\ tileInfo' = st.tileInfo
           /\ canvas' = st.canvas
  /\ lastMove' = "none"
  /\ UNCHANGED <<variant, imageOnly, noiseOnly, tgOnly>>

NextGen ==
  \/ Load
  \/ \E k \in Keys : TileKeyDown(k)
  \/ \E d \in ArrowDirs : TileButton(d)
  \/ \E k \in ZoomKeys : TileZoomKey(k)
  \/ \E up \in BOOLEAN : TileZoomButton(up)
  \/ \E deltaY \in WheelDeltaY : TileWheel(deltaY)
  \/ \E win \in WindowSizes : Resize(win)

SpecGen == InitGen /\ [][NextGen]_vars

WORLD_SIZE == 1000
TILE_SIZE == 12

\* The directions of grad2, the gradient table of simplex-noise.
Gradients ==
  {<<1, 1>>, <<-1, 1>>, <<1, -1>>, <<-1, -1>>, <<1, 0>>, <<-1, 0>>, <<0, 1>>,
   <<0, -1>>}

\* createNoise2D(): the noise functions it can return, as far as the probe
\* tiles tell them apart.
createNoise2D == Gradients

\* The tiles whose painted biome is recorded.
Probes ==
  {[x |-> 500, y |-> 500], [x |-> 510, y |-> 500], [x |-> 520, y |-> 500],
   [x |-> 500, y |-> 520]}

\* window.innerWidth and window.innerHeight.
NoiseWindow == <<801, 601>>

\* (0.5 - x0^2 - y0^2)^4 in 1/10000, for x0 = scale * dx / 1000 and
\* y0 = scale * dy / 1000.
Falloff4(scale, dx, dy) ==
  LET t == 5000 - (scale * scale * (dx * dx + dy * dy)) \div 100
      t2 == (t * t) \div 10000
  IN (t2 * t2) \div 10000

\* noise2D(scale * dx / 1000, scale * dy / 1000) of the noise function with
\* gradient g at the lattice point (0, 0), in millionths; 0 <= dx, dy <= 28.
Noise2DAt(g, scale, dx, dy) ==
  7 * Falloff4(scale, dx, dy) * scale * (g[1] * dx + g[2] * dy)

\* getBiome(x, y) with the noise function g: nx = x / WORLD_SIZE - 0.5 is
\* (x - WORLD_SIZE / 2) / 1000.
getBiome(g, x, y) ==
  LET e == Noise2DAt(g, 2, x - WORLD_SIZE \div 2, y - WORLD_SIZE \div 2)
      m == Noise2DAt(g, 4, x - WORLD_SIZE \div 2, y - WORLD_SIZE \div 2)
  IN IF e < -300000 THEN "water"
     ELSE IF e < -50000 THEN "sand"
     ELSE IF e > 500000 THEN "mountain"
     ELSE IF e > 800000 THEN "snow"
     ELSE IF m > 300000 THEN "forest"
     ELSE "grass"

\* Math.floor(len / tile / 2) with tile = TILE_SIZE * zoom
HalfFloor(len, z) == (len * 1000) \div (2 * TILE_SIZE * z)

\* The number of passes of `for (let i = 0; i < len / tile + 2; i++)`;
\* len / tile is not a whole number for the window and zooms used.
LoopCount(len, z) == (len * 1000) \div (TILE_SIZE * z) + 3

\* draw() of part_003: tiles start.x .. start.x + cols - 1 by start.y ..
\* start.y + rows - 1 are painted; the marker's centre is at marker2 / 2.
DrawNoise(p, z, win) ==
  [kind |-> "noise",
   width |-> win[1],
   height |-> win[2],
   tile |-> TILE_SIZE * z,
   start |-> [x |-> p.x - HalfFloor(win[1], z), y |-> p.y - HalfFloor(win[2], z)],
   cols |-> LoopCount(win[1], z),
   rows |-> LoopCount(win[2], z),
   marker2 |-> <<win[1], win[2]>>]

\* Whether frame c paints tile t.
Paints(c, t) ==
  /\ t.x >= c.start.x
  /\ t.x < c.start.x + c.cols
  /\ t.y >= c.start.y
  /\ t.y < c.start.y + c.rows

\* The biomes painted for the probe tiles so far, after frame c was drawn
\* with the noise function g.
SeenAfter(old, c, g) ==
  [t \in Probes |-> IF Paints(c, t) THEN old[t] \cup {getBiome(g, t.x, t.y)}
                    ELSE old[t]]

\* Tiles that key moves from (500, 500) lead to (the moves are two tiles
\* long): the initial tile, a tile of the first column and the last tile
\* with even coordinates.
NoiseStartTiles ==
  {[x |-> 500, y |-> 500], [x |-> 0, y |-> 500], [x |-> 998, y |-> 998]}

InitNoise ==
  /\ variant = "Noise"
  /\ player \in NoiseStartTiles
  /\ zoom = INITIAL_ZOOM
  /\ noise2D \in createNoise2D
  /\ canvas = DrawNoise(player, zoom, NoiseWindow)
  /\ seen = SeenAfter([t \in Probes |-> {}], canvas, noise2D)
  /\ regionName = ""
  /\ lastMove = "none"
  /\ steps = 0
  /\ ImageIdle
  /\ TileIdle
  /\ GenIdle
  /\ TgIdle

\* A render of the component after a state update, with the draw() of its
\* effect on [player, zoom].
RenderNoise(p, z) ==
  /\ player' = p
  /\ zoom' = z
  /\ noise2D' \in createNoise2D
  /\ canvas' = DrawNoise(p, z, <<canvas.width, canvas.height>>)
  /\ seen' = SeenAfter(seen, canvas', noise2D')

\* An event of the noise world.
NoiseStep ==
  /\ Step
  /\ variant = "Noise"
  /\ UNCHANGED <<variant, regionName, imageOnly, tileOnly, genOnly, tgOnly>>

\* keydown of a movement key: setPlayer((p) => ({...p, x: p.x - 2})) etc.
NoiseKeyDown(k) ==
  /\ NoiseStep
  /\ RenderNoise([x |-> player.x + 2 * KeyDir(k)[1],
                  y |-> player.y + 2 * KeyDir(k)[2]], zoom)
  /\ lastMove' = "moved"

\* keydown of "+" (up = TRUE) or "-".  At a limit setZoom gets the value
\* it has, and React renders nothing.
NoiseZoomKey(up) ==
  /\ NoiseStep
  /\ LET z2 == IF up THEN Min(4000, zoom + 100) ELSE Max(500, zoom - 100)
     IN IF z2 = zoom
        THEN UNCHANGED <<player, zoom, noise2D, canvas, seen>>
        ELSE RenderNoise(player, z2)
  /\ UNCHANGED lastMove

NextNoise ==
  \/ \E k \in Keys : NoiseKeyDown(k)
  \/ \E up \in BOOLEAN : NoiseZoomKey(up)

SpecNoise == InitNoise /\ [][NextNoise]_vars

(***************************************************************************)
(* Properties of the noise world (checked under SpecNoise).                *)
(***************************************************************************)
\* C3 (as claimed): in the simplex-noise world (WORLD_SIZE = 1000) the
\* player stays within the grid, 0 <= x <= 999 and 0 <= y <= 999, after
\* every sequence of arrow/WASD key moves from (500, 500).
C3_PlayerInWorld ==
  variant = "Noise" =>
    /\ player.x \in 0..(WORLD_SIZE - 1)
    /\ player.y \in 0..(WORLD_SIZE - 1)

\* C7 (as claimed): the biome of a world tile is the same in every frame
\* drawn during a session: no move and no zoom changes the biome getBiome
\* gives a tile, so no tile is ever painted with two biomes.
C7_OneBiomePerTile ==
  variant = "Noise" => \A t \in Probes : Cardinality(seen[t]) <= 1

(***************************************************************************)
(***************************************************************************)
(* SpecTg: the Telegram WebApp page of script.js ("Telegram").             *)
(* The state is the one after the script ran: tg.expand() was called and   *)
(* renderMap() drew the first map.                                         *)
(***************************************************************************)
(***************************************************************************)
\* The number of clicks explored.
MaxClicks == 6

\* mapSize
mapSize == [width |-> 15, height |-> 9]

\* The ids of the elements with an onclick handler.
Buttons == {"up", "down", "left", "right"}

\* The arguments the handler of a button gives move().
ButtonMove(b) ==
  CASE b = "up" -> <<0, -1>>
    [] b = "down" -> <<0, 1>>
    [] b = "left" -> <<-1, 0>>
    [] b = "right" -> <<1, 0>>

\* getRegion(x, y): the remainder of JavaScript has the sign of the
\* dividend, and Math.abs removes it.
getRegion(x, y) ==
  LET v == x * 92821 + y * 1237
      seed == (IF v < 0 THEN -v ELSE v) % 5
  IN <<"fire", "water", "wind", "lightning", "earth">>[seed + 1]

\* region.charAt(0).toUpperCase() + region.slice(1)
Capitalised(region) ==
  CASE region = "fire" -> "Fire"
    [] region = "water" -> "Water"
    [] region = "wind" -> "Wind"
    [] region = "lightning" -> "Lightning"
    [] region = "earth" -> "Earth"

\* Whether one of the tiles renderMap() makes is the player's.
PlayerOnMap(p, off) ==
  /\ p.x - off.x \in 0..(mapSize.width - 1)
  /\ p.y - off.y \in 0..(mapSize.height - 1)

\* renderMap(): the two texts are written at the player's tile only.
RenderRegionText(p, off, old) ==
  IF PlayerOnMap(p, off) THEN <<"Region: ", Capitalised(getRegion(p.x, p.y))>>
  ELSE old

RenderChunkText(p, off, old) ==
  IF PlayerOnMap(p, off) THEN <<"Chunk: ", p.x, "-", p.y>> ELSE old

\* renderMap(): the map element, as the cell that holds the player's mark.
RenderMapElement(p, off) ==
  [kind |-> "tg",
   marked |-> PlayerOnMap(p, off),
   mark |-> [x |-> p.x - off.x, y |-> p.y - off.y]]

\* The four `if`s of move(): the viewport moves by one when the player is
\* near an edge; the second test of an axis reads the offset the first left.
ShiftAxis(pos, off, low, high) ==
  LET o1 == IF pos - off < low THEN off - 1 ELSE off
  IN IF pos - o1 > high THEN o1 + 1 ELSE o1

ShiftOffset(p, off) ==
  [x |-> ShiftAxis(p.x, off.x, 3, 11), y |-> ShiftAxis(p.y, off.y, 2, 6)]

\* The calls the script makes on tg when it is loaded
TgCallsOnLoad == <<"expand">>

TgCallsOfMove_SendClose == <<"sendData", "close">>
\* The calls move() and renderMap() make on tg.
TgCallsOfMove == <<>>

InitTg ==
  /\ variant = "Telegram"
  /\ player = [x |-> 7, y |-> 4]
  /\ offset = Origin
  /\ bridgeLog = TgCallsOnLoad
  /\ clicked = {}
  /\ regionText = RenderRegionText(player, offset, "")
  /\ chunkText = RenderChunkText(player, offset, "")
  /\ canvas = RenderMapElement(player, offset)
  /\ zoom = 0
  /\ regionName = ""
  /\ lastMove = "none"
  /\ steps = 0
  /\ ImageIdle
  /\ TileIdle
  /\ GenIdle
  /\ NoiseIdle

\* move(dx, dy)
move(dx, dy) ==
  /\ player' = [x |-> player.x + dx, y |-> player.y + dy]
  /\ offset' = ShiftOffset(player', offset)
  /\ regionText' = RenderRegionText(player', offset', regionText)
  /\ chunkText' = RenderChunkText(player', offset', chunkText)
  /\ canvas' = RenderMapElement(player', offset')
  /\ bridgeLog' = bridgeLog \o TgCallsOfMove

\* A click on one of the four buttons.
TgClick(b) ==
  /\ steps < MaxClicks
  /\ steps' = steps + 1
  /\ variant = "Telegram"
  /\ move(ButtonMove(b)[1], ButtonMove(b)[2])
  /\ clicked' = clicked \cup {b}
  /\ lastMove' = "moved"
  /\ UNCHANGED <<variant, zoom, regionName, imageOnly, tileOnly, genOnly, noiseOnly>>

NextTg == \E b \in Buttons : TgClick(b)

SpecTg == InitTg /\ [][NextTg]_vars

(***************************************************************************)
(* Properties of the Telegram page (checked under SpecTg).                 *)
(***************************************************************************)
\* Whether the calls made on tg hold a sendData followed by a close.
SentThenClosed ==
  \E i \in DOMAIN bridgeLog : \E j \in DOMAIN bridgeLog :
    /\ i < j
    /\ bridgeLog[i] = "sendData"
    /\ bridgeLog[j] = "close"

\* C8 (as claimed): the Telegram page has an operation that sends a
\* selected-region payload to the host bridge and then closes the view, the
\* send before the close: once every operation of the page has run, the
\* bridge has got a sendData and, after it, a close.
C8_SomeOperationSendsThenCloses ==
  (variant = "Telegram" /\ clicked = Buttons) => SentThenClosed

\* C8 (amended): the only call the Telegram page makes on the host bridge is
\* expand(), once, when the script is loaded; no operation of the page sends
\* a payload or closes the view.
C8_OnlyExpand == variant = "Telegram" => bridgeLog = <<"expand">>

C8_Witness ==
  /\ variant = "Telegram"
  /\ clicked = Buttons
  /\ player = [x |-> 7, y |-> 4]
  /\ bridgeLog = <<"expand">>

(***************************************************************************)
(***************************************************************************)
(* SpecCamera: the geometry of drawFrame / drawAll of the image-based      *)
(* components, with the image loaded.                                      *)
(*                                                                         *)
(* The two axes are drawn by the same arithmetic; an axis is given by the  *)
(* player's coordinate pos, the viewport's length len (vw or vh, in CSS    *)
(* pixels), the image's length imgLen (img.width or img.height) and the    *)
(* grid size.  The code's doubles are exact rationals here:                *)
(*   displayTilePx       t / 10, with t == Tile10(z)                       *)
(*   image pixels        numerators over t * GRID_SIZE                     *)
(*   tile indices        numerators over t * imgLen                        *)
(*   screen pixels       numerators over 10 * imgLen                       *)
(* The zooms are whole multiples of 0.05, as every zoom is that the keys,  *)
(* the buttons and the wheel events of the exploration lead to, and the    *)
(* viewport lengths are whole pixels.                                      *)
(***************************************************************************)
(***************************************************************************)
\* The number of events explored from a drawn frame.
MaxCameraSteps == 3

BASE_TILE_PX_IMAGE == 6
CHUNK_SIZE == 16

\* img.width and img.height of /village_map.jpg, which the repository does
\* not hold.
ImageSizes == {<<1500, 1000>>, <<750, 750>>}

\* vw and vh: the smallest and the largest viewport, and one between.
Viewports == {<<320, 240>>, <<780, 602>>, <<1200, 800>>}

\* The zoom the exploration starts from.
CameraZooms == {MIN_ZOOM, INITIAL_ZOOM, MAX_ZOOM}

\* displayTilePx = BASE_TILE_PX * z, in tenths of a pixel.
Tile10(z) == (BASE_TILE_PX_IMAGE * z) \div 100

\* Math.round(n / d) for d > 0: halves go up.
RoundDiv(n, d) == (2 * n + d) \div (2 * d)

\* Math.ceil(n / d) for n >= 0, d > 0.
CeilDiv(n, d) == (n + d - 1) \div d

\* srcW = tilesAcross * pxPerTileX, over t * GRID_SIZE.
SrcLen(len, imgLen) == 10 * len * imgLen

\* Math.round(centerImgX - srcW / 2), over t * size.
SrcStart(pos, len, imgLen, t, size) ==
  t * size * RoundDiv(imgLen * ((2 * pos + 1) * t - 10 * len), 2 * t * size)

\* The clamp of drawFrame, of part_001 and of RegionTimer:
\*   if (srcX < 0) srcX = 0;
\*   if (srcX + srcW > img.width) srcX = Math.max(0, img.width - srcW);
ClampIfs(x0, srcLen, imgEnd) ==
  IF Max(0, x0) + srcLen > imgEnd THEN Max(0, imgEnd - srcLen) ELSE Max(0, x0)

\* The clamp of PersistentHud:
\*   srcX = Math.max(0, Math.min(img.width - srcW, srcX));
ClampMinMax(x0, srcLen, imgEnd) == Max(0, Min(imgEnd - srcLen, x0))

\* srcX as drawImage gets it, over t * size.
SrcClamped(v, x0, srcLen, imgEnd) ==
  IF v = "PersistentHud" THEN ClampMinMax(x0, srcLen, imgEnd)
  ELSE ClampIfs(x0, srcLen, imgEnd)

\* Math.floor(topLeftTileXFloat), topLeftTileXFloat = srcX / pxPerTileX
\* being src over t * imgLen.
TopLeftFloor(src, t, imgLen) == src \div (t * imgLen)

\* offsetX = -(topLeftTileXFloat - Math.floor(topLeftTileXFloat)) *
\* displayTilePx, over 10 * imgLen.
OffsetOf(src, t, imgLen) == 0 - (src - TopLeftFloor(src, t, imgLen) * t * imgLen)

\* cols = Math.ceil(vw / displayTilePx) + 2
GridCount(len, t) == CeilDiv(10 * len, t) + 2

\* worldToScreenX(tileIndex) of RegionTimer, over 10 * imgLen:
\*   offsetX + (tileIndex - Math.floor(topLeftTileXFloat)) * displayTilePx
worldToScreen_CameraAnchored(tileIndex, off, ft, t, imgLen) ==
  off + tileIndex * t * imgLen
worldToScreen(tileIndex, off, ft, t, imgLen) ==
  off + (tileIndex - ft) * t * imgLen

\* A stroked chunk line: the world tile index its position stands for and
\* its screen coordinate (the + 0.5 of the stroke included).
ChunkLine(tile, at, imgLen) == [tile |-> tile, at |-> at + 5 * imgLen]

\* The chunk lines of RegionTimer along one axis:
\*   for (cx = Math.max(0, firstChunkIndex); cx <= lastChunkIndex; cx++)
RegionTimerLines(off, ft, count, t, imgLen, size) ==
  {ChunkLine(cx * CHUNK_SIZE,
             worldToScreen(cx * CHUNK_SIZE, off, ft, t, imgLen), imgLen) :
     cx \in Max(0, ft \div CHUNK_SIZE - 2)..
              (Min(size, CeilDiv(ft + count, CHUNK_SIZE)) + 2)}

\* The chunk lines of part_001 along one axis:
\*   for (cx = -2; cx < chunksAcross; cx++)
\*     x = offsetX + (cx * CHUNK_SIZE) * displayTilePx + 0.5
\* which is where tile floor(topLeftTileXFloat) + cx * CHUNK_SIZE begins.
Part001Lines(off, ft, count, t, imgLen) ==
  {ChunkLine(ft + cx * CHUNK_SIZE, off + (cx * CHUNK_SIZE) * t * imgLen,
             imgLen) :
     cx \in (-2)..(CeilDiv(count + 2, CHUNK_SIZE) + 3)}

\* The chunk lines a draw strokes along one axis.  drawFrame of DualLayer
\* has no chunk overlay, and drawAll of PersistentHud never reads its
\* showChunks parameter.
ChunkLines(v, showChunks, src, len, imgLen, t, size) ==
  IF ~showChunks \/ v \in {"DualLayer", "PersistentHud"} THEN {}
  ELSE IF v = "RegionTimer"
  THEN RegionTimerLines(OffsetOf(src, t, imgLen), TopLeftFloor(src, t, imgLen),
                        GridCount(len, t), t, imgLen, size)
  ELSE Part001Lines(OffsetOf(src, t, imgLen), TopLeftFloor(src, t, imgLen),
                    GridCount(len, t), t, imgLen)

\* The marker as DualLayer places it: Math.round(vw / 2).
MarkerCentred(v, pos, src, len, imgLen, t) == RoundDiv(len, 2)

PlayerScreen_Centred(v, pos, src, len, imgLen, t) == RoundDiv(len, 2)
\* The marker's centre, in pixels.  The 500-tile components:
\*   Math.round((p.x - topLeftTileXFloat + 0.5) * displayTilePx)
PlayerScreen(v, pos, src, len, imgLen, t) ==
  IF v = "DualLayer" THEN MarkerCentred(v, pos, src, len, imgLen, t)
  ELSE RoundDiv((2 * pos + 1) * t * imgLen - 2 * src, 20 * imgLen)

\* One axis of a frame.
AxisOf(v, pos, len, imgLen, t, size, showChunks, src) ==
  [len |-> len,
   imgLen |-> imgLen,
   src |-> src,
   srcLen |-> SrcLen(len, imgLen),
   marker |-> PlayerScreen(v, pos, src, len, imgLen, t),
   lines |-> ChunkLines(v, showChunks, src, len, imgLen, t, size)]

DrawAxis(v, pos, len, imgLen, t, size, showChunks) ==
  AxisOf(v, pos, len, imgLen, t, size, showChunks,
         SrcClamped(v, SrcStart(pos, len, imgLen, t, size),
                    SrcLen(len, imgLen), imgLen * t * size))

\* drawFrame(p) / drawAll(img, p, z, showChunks): what is on the canvas.
DrawImage(v, p, z, showChunks, view, img) ==
  [kind |-> "image",
   tile10 |-> Tile10(z),
   grid |-> GridSize(v),
   x |-> DrawAxis(v, p.x, view[1], img[1], Tile10(z), GridSize(v), showChunks),
   y |-> DrawAxis(v, p.y, view[2], img[2], Tile10(z), GridSize(v), showChunks)]

\* The region name after the redraw effect ran for player p.
RegionNameAt(v, p, old) ==
  CASE v = "PersistentHud" -> updateRegion(p)
    [] v = "RegionTimer" -> updateRegionName(p)
    [] OTHER -> old

\* The tiles the exploration starts from: those of SpecImage and, for the
\* chunk lines, a tile whose viewport begins between two chunks.
CameraStartTiles(v) == StartTiles(v) \cup {[x |-> 70, y |-> 41]}

InitCamera ==
  /\ variant \in ImageVariants
  /\ imgState = "loaded"
  /\ loaded = TRUE
  /\ errorLogged = FALSE
  /\ player \in CameraStartTiles(variant)
  /\ zoom \in CameraZooms
  /\ chunkOverlay = InitialChunkOverlay(variant)
  /\ regionName = RegionNameAt(variant, player, InitialRegionName(variant))
  /\ regionTimer = (variant = "RegionTimer" /\ findRegionAt(player) # 0)
  /\ holdDir = NoDir
  /\ holdTimer = 0
  /\ intervals = {}
  /\ down = {}
  /\ pointer = NoDir
  /\ rafQueue = <<>>
  /\ frame = MapFrame(player, zoom, variant # "DualLayer" /\ chunkOverlay)
  /\ lastMove = "none"
  /\ repeating = {}
  /\ mounted = TRUE
  /\ steps = 0
  /\ \E view \in Viewports : \E img \in ImageSizes :
       canvas = DrawImage(variant, player, zoom, chunkOverlay, view, img)
  /\ TileIdle
  /\ GenIdle
  /\ NoiseIdle
  /\ TgIdle

\* An event of a loaded component, with the re-render and the redraw it
\* causes (in DualLayer the animation frame that follows included).
CameraRedraw(p2, z2, c2) ==
  /\ steps < MaxCameraSteps
  /\ steps' = steps + 1
  /\ player' = p2
  /\ zoom' = z2
  /\ chunkOverlay' = c2
  /\ canvas' = DrawImage(variant, p2, z2, c2, <<canvas.x.len, canvas.y.len>>,
                         <<canvas.x.imgLen, canvas.y.imgLen>>)
  /\ frame' = MapFrame(p2, z2, variant # "DualLayer" /\ c2)
  /\ regionName' = RegionNameAt(variant, p2, regionName)
  /\ regionTimer' = (regionTimer \/ (variant = "RegionTimer" /\ findRegionAt(p2) # 0))
  /\ UNCHANGED <<variant, imgState, loaded, errorLogged, holdDir, holdTimer,
                 intervals, down, pointer, rafQueue, repeating, mounted,
                 tileOnly, genOnly, noiseOnly, tgOnly>>

\* move(dx, dy) / doMove(dx, dy), whichever control calls it.
CameraMove(dir) ==
  /\ CameraRedraw(MoveTarget(player, dir, GridSize(variant)), zoom, chunkOverlay)
  /\ lastMove' = IF MoveTarget(player, dir, GridSize(variant)) = player
                 THEN "clamped" ELSE "moved"

CameraZoomKey(up) ==
  /\ \E z2 \in (IF up THEN ZoomInTo(zoom, KeyZoomStep(variant))
                ELSE ZoomOutTo(zoom, KeyZoomStep(variant))) :
       CameraRedraw(player, z2, chunkOverlay)
  /\ lastMove' = "zoomed"

CameraZoomButton(up) ==
  /\ \E z2 \in (IF up THEN ZoomInTo(zoom, ButtonZoomStep)
                ELSE ZoomOutTo(zoom, ButtonZoomStep)) :
       CameraRedraw(player, z2, chunkOverlay)
  /\ lastMove' = "zoomed"

CameraWheel(deltaY) ==
  /\ \E z2 \in WheelTo(zoom, deltaY) : CameraRedraw(player, z2, chunkOverlay)
  /\ lastMove' = "zoomed"

CameraToggleChunks ==
  /\ variant \in HoldVariants
  /\ CameraRedraw(player, zoom, ~chunkOverlay)
  /\ lastMove' = "toggled"

NextCamera ==
  \/ \E d \in ArrowDirs : CameraMove(d)
  \/ \E up \in BOOLEAN : CameraZoomKey(up)
  \/ \E up \in BOOLEAN : CameraZoomButton(up)
  \/ \E deltaY \in WheelDeltaY : CameraWheel(deltaY)
  \/ CameraToggleChunks

SpecCamera == InitCamera /\ [][NextCamera]_vars

(***************************************************************************)
(* Properties of the drawn frames (checked under SpecCamera).              *)
(***************************************************************************)
\* The two axes of the frame on the canvas, each with the player's
\* coordinate along it.
CanvasAxes == {[a |-> canvas.x, pos |-> player.x], [a |-> canvas.y, pos |-> player.y]}

\* The screen coordinate at which world tile `tile` begins, over
\* 10 * imgLen: (tile - topLeftTile) * displayTilePx.
TileEdge(a, tile) == tile * canvas.tile10 * a.imgLen - a.src

\* The marker's centre is on the screen cell of tile pos.
MarkerOnTile(a, pos) ==
  /\ TileEdge(a, pos) <= a.marker * 10 * a.imgLen
  /\ a.marker * 10 * a.imgLen <= TileEdge(a, pos + 1)

\* C11 (as claimed): in DualLayer (GRID_SIZE 1000), for every player tile
\* and every zoom in [0.3, 4], the source rectangle is centred on the
\* player's tile, so that the marker, drawn at the viewport's centre, lies
\* on the player's tile.
C11_CentreOnPlayerTile ==
  (variant = "DualLayer" /\ canvas.kind = "image") =>
    \A e \in CanvasAxes : MarkerOnTile(e.a, e.pos)

C13_ChunkLinesIffOverlay ==
  (variant \in HoldVariants /\ canvas.kind = "image") =>
    (chunkOverlay <=> (canvas.x.lines \cup canvas.y.lines) # {})

\* C15 (as claimed): for every player tile and every zoom in
\* [MIN_ZOOM, MAX_ZOOM] the source rectangle given to drawImage is inside
\* the image: srcX >= 0, srcY >= 0, srcX + srcW <= img.width and
\* srcY + srcH <= img.height.
C15_SourceRectInImage ==
  canvas.kind = "image" =>
    \A e \in CanvasAxes :
      /\ e.a.src >= 0
      /\ e.a.src + e.a.srcLen <= e.a.imgLen * canvas.tile10 * canvas.grid

\* C16: in the 500-tile components, for every player tile and zoom, at the
\* map's edges too, the marker is inside the viewport and on the screen
\* cell of the player's tile.
C16_MarkerOnPlayerTile ==
  (variant \in HoldVariants /\ canvas.kind = "image") =>
    \A e \in CanvasAxes :
      /\ e.a.marker >= 0
      /\ e.a.marker <= e.a.len
      /\ MarkerOnTile(e.a, e.pos)

\* The player moved along the first column, where the source rectangle is
\* clamped, zoomed in.
C16_Witness ==
  /\ variant \in HoldVariants
  /\ canvas.kind = "image"
  /\ lastMove = "moved"
  /\ player.x = 0
  /\ player.y > 0
  /\ canvas.x.src = 0
  /\ zoom = MAX_ZOOM

(***************************************************************************)
(* Zoom limits: every component with a zoom, under all its events, with    *)
(* wheel events large enough to pass either limit in one step.             *)
(***************************************************************************)
\* deltaY of a fast wheel turn: 3000 * 0.0015 = 4.5 (image components) and
\* 3000 * 0.001 = 3 (Blob) exceed the distance between the two limits.
FastDeltaY == {-3000, 3000}

InitZoom == InitImage \/ InitTile

NextZoom ==
  \/ variant \in ImageVariants /\ NextImage
  \/ variant \in ImageVariants /\ \E deltaY \in FastDeltaY : Wheel(deltaY)
  \/ variant \in TileVariants /\ NextTile
  \/ variant \in TileVariants /\ \E deltaY \in FastDeltaY : TileWheel(deltaY)

SpecZoom == InitZoom /\ [][NextZoom]_vars

\* The limits of the component's zoom, in thousandths.
ZoomMin(v) == IF v \in ImageVariants THEN MIN_ZOOM ELSE TileMinZoom(v)
ZoomMax(v) == IF v \in ImageVariants THEN MAX_ZOOM ELSE TileMaxZoom(v)

\* C14: after any sequence of zoom operations (the + / = / - keys, wheel
\* events of any deltaY, the on-screen + and - buttons) zoom is within the
\* component's limits: [0.3, 4] in the NarutoWorldMap components, [0.5, 4]
\* in LandingPageMap, [0.4, 3] in the blob map.
C14_ZoomWithinLimits ==
  variant \in ImageVariants \cup ZoomVariants =>
    /\ ZoomMin(variant) <= zoom
    /\ zoom <= ZoomMax(variant)

\* The zoom of a 500-tile component at its lower limit after an event.
C14_Witness ==
  /\ variant \in HoldVariants
  /\ zoom = MIN_ZOOM
  /\ steps > 0

====
